---- MODULE Spec2Model ----
(***************************************************************************)
(* Model of src/app.py: the submission processor lambda_handler and its    *)
(* helpers upload_blob, update_email_tracking and send_email, run by two   *)
(* invocations that share the bucket and the tracking table.               *)
(*                                                                         *)
(* Every call of an external collaborator (requests.get, the storage      *)
(* client, blob.upload_from_string, sg.send, table.put_item) either        *)
(* completes or raises; the handler's control flow around the raise is the *)
(* code's try/except structure.                                            *)
(***************************************************************************)
EXTENDS Integers, Sequences, FiniteSets, TLC

VARIABLES
    event,      \* event[p]: the parsed SNS message of invocation p (lines 118-127)
    pc,         \* pc[p]: the statement invocation p executes next
    inExcept,   \* inExcept[p]: p runs the except block of lines 201-217
    response,   \* response[p]: what requests.get returned (line 130)
    call,       \* call[p]: the arguments of the send_email call in progress
    outbox,     \* outbox[p]: the sg.send attempts of invocation p, in order
    uploads,    \* uploads[p]: the upload_blob calls of invocation p, in order
    puts,       \* puts[p]: the table.put_item calls of invocation p, in order
    bucket,     \* the blobs of the GCP bucket
    table,      \* the items of the DynamoDB table
    lastPut,    \* lastPut[k]: status of the latest completed put_item for id k
    result      \* result[p]: what lambda_handler returned

vars == <<event, pc, inExcept, response, call, outbox, uploads, puts,
          bucket, table, lastPut, result>>

(***************************************************************************)
(* Invocations and their inputs.                                           *)
(***************************************************************************)
Procs == {1, 2}

\* A URL is kept as its pieces, "/" being its own piece, so that
\* os.path.basename has something to split.
EventList ==
    << [ submission_url  |-> <<"https:", "/", "/", "x", "/", "test.zip">>,
        user_email      |-> "a@b.com",
        user_first_name |-> "A",
        user_last_name  |-> "B",
        assignment_id   |-> "hw1",
        submission_count |-> 1,
        total_attempts  |-> 5,
        assignment_name |-> "HW1" ],
      [ submission_url  |-> <<"https:", "/", "/", "y", "/", "d", "/", "notes.txt">>,
        user_email      |-> "a@b.com",
        user_first_name |-> "A",
        user_last_name  |-> "B",
        assignment_id   |-> "hw1",
        submission_count |-> 1,
        total_attempts  |-> 5,
        assignment_name |-> "HW1" ],
      [ submission_url  |-> <<"https:", "/", "/", "z", "/", "w.zip">>,
        user_email      |-> "c@d.com",
        user_first_name |-> "C",
        user_last_name  |-> "D",
        assignment_id   |-> "hw2",
        submission_count |-> 2,
        total_attempts  |-> 3,
        assignment_name |-> "HW2" ],
      [ submission_url  |-> <<"http:", "/", "/", "h", "/", "a", "/", "b", "/", "final.tar.gz">>,
        user_email      |-> "e@f.org",
        user_first_name |-> "E",
        user_last_name  |-> "F",
        assignment_id   |-> "hw10",
        submission_count |-> 10,
        total_attempts  |-> 10,
        assignment_name |-> "HW10" ] >>

\* How many events of EventList the invocations draw from.
NumEvents == 3

Events == {EventList[i] : i \in 1..NumEvents}

\* HTTP statuses requests.get may answer with.
StatusCodes == {200, 404}

\* Response bodies, as pieces; "PK56" stands for the end-of-central-directory
\* signature PK\005\006 that zipfile.is_zipfile looks for.
ZipBody == <<"PK34", "data", "PK56">>
TextBody == <<"text">>
Bodies == {ZipBody, TextBody}

NoResponse == [status_code |-> 0, content |-> <<>>]
NoCall == [status |-> "none", failure_reason |-> "None",
           file_url |-> "None", file_name |-> "None"]
NoResult == [returned |-> FALSE]

(***************************************************************************)
(* Pure helpers.                                                           *)
(***************************************************************************)
RECURSIVE Join(_)
Join(s) == IF s = <<>> THEN "" ELSE Head(s) \o Join(Tail(s))

\* os.path.basename: what follows the last "/".
RECURSIVE basename(_)
basename(url) ==
    IF \E i \in 1..Len(url) : url[i] = "/"
    THEN basename(Tail(url))
    ELSE Join(url)

\* Variant of is_zipfile: any body that is not empty passes.
is_zipfile_AnyBody(content) == Len(content) > 0

\* zipfile.is_zipfile: the end-of-central-directory record is present.
is_zipfile(content) == \E i \in 1..Len(content) : content[i] = "PK56"

bucket_base_url == "https://storage.cloud.google.com"

\* os.getenv("GCP_BUCKET_NAME")
bucket_name == "bucket"

\* Variant of destination_path: the attempt directory lacks its "attempt_".
destination_path_NoAttempt(m) ==
    m.user_first_name \o "_" \o m.user_last_name \o "/" \o m.assignment_id
        \o "/" \o ToString(m.submission_count) \o "/"
        \o basename(m.submission_url)

\* The destination path of line 147.
destination_path(m) ==
    m.user_first_name \o "_" \o m.user_last_name \o "/" \o m.assignment_id
        \o "/attempt_" \o ToString(m.submission_count) \o "/"
        \o basename(m.submission_url)

\* The file_url of line 149.
file_url_of(m) ==
    bucket_base_url \o "/" \o bucket_name \o "/" \o m.user_first_name \o "_"
        \o m.user_last_name \o "/" \o m.assignment_id \o "/attempt_"
        \o ToString(m.submission_count) \o "/" \o basename(m.submission_url)

\* The id of the item of line 43.
item_id(email, assignment_id, submission_count) ==
    email \o "__" \o assignment_id \o "__" \o ToString(submission_count)

\* The Item of lines 42-48.
tracking_item(email, status, assignment_id, submission_count) ==
    [ id               |-> item_id(email, assignment_id, submission_count),
      email            |-> email,
      status           |-> status,
      assignment_id    |-> assignment_id,
      submission_count |-> submission_count ]

\* Variant of put_item: the item is added beside what the table holds.
put_item_Appends(t, item) == t \cup {item}

\* table.put_item: the item replaces whatever the table holds under its id.
put_item(t, item) == {i \in t : i.id # item.id} \cup {item}

\* blob.upload_from_string: the blob replaces whatever the path held.
upload_from_string(b, path, content) ==
    {x \in b : x.path # path} \cup {[path |-> path, content |-> content]}

Keys == {item_id(e.user_email, e.assignment_id, e.submission_count) : e \in Events}

\* The failure reasons of lines 166, 184 and 212.
format_reason(m, file_name) ==
    "Your submission for Assignment (" \o m.assignment_name
        \o ") failed because the submitted file ('" \o file_name
        \o "') is not a .zip file. Please submit the file in .zip format."

download_reason(m) ==
    "There was an error downloading the Assignment (" \o m.assignment_name
        \o ") and processing it."

generic_reason == "There was an error processing your submission."

\* The Mail of lines 70-106.
Mail(m, c) ==
    [ from_email |-> "noreply@demo.rajss.me",
      to_emails  |-> m.user_email,
      subject    |->
          IF c.status = "success"
          THEN "Assignment Submission Confirmation - " \o m.assignment_name
          ELSE "Assignment Submission Error - " \o m.assignment_name,
      plain_text_content |->
          IF c.status = "success"
          THEN "Hello " \o m.user_first_name \o " " \o m.user_last_name \o ",\n"
               \o "Your submission for Assignment " \o m.assignment_name
               \o " has been successfully uploaded.\n"
               \o "Your submission details are as follows:\n"
               \o "- Assignment Name: " \o m.assignment_name \o "\n"
               \o "- File Name: " \o c.file_name \o "\n"
               \o "- Submission Attempt: " \o ToString(m.submission_count)
               \o "/" \o ToString(m.total_attempts) \o "\n"
               \o "- Submission URL: " \o Join(m.submission_url) \o "\n"
               \o "You can download your submission at: " \o c.file_url
          ELSE "Hello " \o m.user_first_name \o " " \o m.user_last_name \o ",\n\n"
               \o "There was an issue with your submission for Assignment - "
               \o m.assignment_name \o ".\n\n"
               \o "The following issue was encountered:\n"
               \o "- " \o c.failure_reason \o "\n\n"
               \o "Your submission details are as follows:\n"
               \o "- Assignment Name: " \o m.assignment_name \o "\n"
               \o "- File Name: " \o c.file_name \o "\n"
               \o "- Submission Attempt: " \o ToString(m.submission_count)
               \o "/" \o ToString(m.total_attempts) \o "\n"
               \o "- Submission URL: " \o Join(m.submission_url) \o "\n\n"
               \o "To successfully submit your assignment, please ensure that:\n"
               \o "- The file is in the correct format (.zip).\n"
               \o "- The submission is made before the due date." ]

(***************************************************************************)
(* Initial state: every invocation has parsed its event and is about to    *)
(* fetch; the bucket and the table are empty.                              *)
(***************************************************************************)
Init ==
    /\ \E i, j \in 1..NumEvents :
          \* the two invocations are interchangeable: one order of each pair
          /\ i <= j
          /\ event = [p \in Procs |-> IF p = 1 THEN EventList[i] ELSE EventList[j]]
    /\ pc = [p \in Procs |-> "fetch"]
    /\ inExcept = [p \in Procs |-> FALSE]
    /\ response = [p \in Procs |-> NoResponse]
    /\ call = [p \in Procs |-> NoCall]
    /\ outbox = [p \in Procs |-> <<>>]
    /\ uploads = [p \in Procs |-> <<>>]
    /\ puts = [p \in Procs |-> <<>>]
    /\ bucket = {}
    /\ table = {}
    /\ lastPut = [k \in Keys |-> "none"]
    /\ result = [p \in Procs |-> NoResult]

(***************************************************************************)
(* Control flow of lambda_handler's try/except (lines 129-218).            *)
(***************************************************************************)
Returned(m) == [returned |-> TRUE, value |-> m]

\* An exception reaches the handler's try statement: from the try body it
\* enters the except block, whose first statement is the send_email call of
\* lines 203-216; from the except block it leaves lambda_handler.
Raise(p) ==
    IF inExcept[p]
    THEN /\ pc' = [pc EXCEPT ![p] = "raised"]
         /\ UNCHANGED <<inExcept, call, result>>
    ELSE /\ pc' = [pc EXCEPT ![p] = "send"]
         /\ inExcept' = [inExcept EXCEPT ![p] = TRUE]
         /\ call' = [call EXCEPT ![p] =
                [status |-> "failure", failure_reason |-> generic_reason,
                 file_url |-> "None", file_name |-> "None"]]
         /\ UNCHANGED result

\* Variant of SendEmailReturns: the failure branches return without the
\* update_email_tracking of lines 182 and 200.
SendEmailReturns_NoHandlerWrite(p) ==
    /\ UNCHANGED <<inExcept, call>>
    /\ IF inExcept[p]
       THEN /\ pc' = [pc EXCEPT ![p] = "track_except"]
            /\ UNCHANGED result
       ELSE /\ pc' = [pc EXCEPT ![p] = "returned"]
            /\ result' = [result EXCEPT ![p] = Returned(event[p])]

\* send_email returns to its caller: the except block goes on to line 217,
\* the success branch to the return of line 218, the two failure branches
\* to the update_email_tracking of lines 182 and 200.
SendEmailReturns(p) ==
    /\ UNCHANGED <<inExcept, call>>
    /\ IF inExcept[p]
       THEN /\ pc' = [pc EXCEPT ![p] = "track_except"]
            /\ UNCHANGED result
       ELSE IF call[p].status = "success"
       THEN /\ pc' = [pc EXCEPT ![p] = "returned"]
            /\ result' = [result EXCEPT ![p] = Returned(event[p])]
       ELSE /\ pc' = [pc EXCEPT ![p] = "track_branch"]
            /\ UNCHANGED result

\* update_email_tracking (lines 39-53) when table.put_item completes.
update_email_tracking(p, status) ==
    LET m == event[p]
        item == tracking_item(m.user_email, status, m.assignment_id,
                              m.submission_count)
    IN  /\ table' = put_item(table, item)
        /\ puts' = [puts EXCEPT ![p] = Append(@, [status |-> status, ok |-> TRUE])]
        /\ lastPut' = [lastPut EXCEPT ![item.id] = status]

\* update_email_tracking when table.put_item raises: logged and re-raised.
update_email_tracking_raises(p, status) ==
    /\ puts' = [puts EXCEPT ![p] = Append(@, [status |-> status, ok |-> FALSE])]
    /\ UNCHANGED <<table, lastPut>>

(***************************************************************************)
(* The steps of one invocation.                                            *)
(***************************************************************************)
\* Variant of branch_of: the status code is not looked at.
branch_of_IgnoresStatus(status_code, content) ==
    IF is_zipfile(content) THEN "success" ELSE "format"

\* The conditions of lines 135, 165 and 183.
branch_of(status_code, content) ==
    IF status_code = 200 /\ is_zipfile(content) THEN "success"
    ELSE IF status_code = 200 /\ ~is_zipfile(content) THEN "format"
    ELSE "download"

\* Lines 130-135, 165-166, 183-184: requests.get answers and the handler
\* picks its branch.
Fetch(p) ==
    /\ pc[p] = "fetch"
    /\ \E sc \in StatusCodes, body \in Bodies :
        LET file_name == basename(event[p].submission_url) IN
        /\ response' = [response EXCEPT ![p] = [status_code |-> sc, content |-> body]]
        /\ IF branch_of(sc, body) = "success"
           THEN /\ pc' = [pc EXCEPT ![p] = "upload"]
                /\ UNCHANGED call
           ELSE IF branch_of(sc, body) = "format"
           THEN /\ pc' = [pc EXCEPT ![p] = "send"]
                /\ call' = [call EXCEPT ![p] =
                       [status |-> "failure",
                        failure_reason |-> format_reason(event[p], file_name),
                        file_url |-> "", file_name |-> file_name]]
           ELSE /\ pc' = [pc EXCEPT ![p] = "send"]
                /\ call' = [call EXCEPT ![p] =
                       [status |-> "failure",
                        failure_reason |-> download_reason(event[p]),
                        file_url |-> "", file_name |-> file_name]]
    /\ UNCHANGED <<event, inExcept, outbox, uploads, puts, bucket, table,
                   lastPut, result>>

\* Line 130: requests.get raises (transport fault).
FetchRaises(p) ==
    /\ pc[p] = "fetch"
    /\ Raise(p)
    /\ UNCHANGED <<event, response, outbox, uploads, puts, bucket, table, lastPut>>

\* Lines 136-149 with upload_blob (lines 29-33): the storage client is built,
\* the blob is written and the success email's arguments are set.
Upload(p) ==
    /\ pc[p] = "upload"
    /\ bucket' = upload_from_string(bucket, destination_path(event[p]),
                                    response[p].content)
    /\ uploads' = [uploads EXCEPT ![p] =
           Append(@, [path |-> destination_path(event[p]), ok |-> TRUE])]
    /\ call' = [call EXCEPT ![p] =
           [status |-> "success", failure_reason |-> "None",
            file_url |-> file_url_of(event[p]),
            file_name |-> basename(event[p].submission_url)]]
    /\ pc' = [pc EXCEPT ![p] = "send"]
    /\ UNCHANGED <<event, inExcept, response, outbox, puts, table, lastPut, result>>

\* Variant of UploadRaises: upload_blob logs the exception and returns, and
\* the handler goes on to the success email.
UploadRaises_Swallowed(p) ==
    /\ pc[p] = "upload"
    /\ uploads' = [uploads EXCEPT ![p] =
           Append(@, [path |-> destination_path(event[p]), ok |-> FALSE])]
    /\ call' = [call EXCEPT ![p] =
           [status |-> "success", failure_reason |-> "None",
            file_url |-> file_url_of(event[p]),
            file_name |-> basename(event[p].submission_url)]]
    /\ pc' = [pc EXCEPT ![p] = "send"]
    /\ UNCHANGED <<event, inExcept, response, outbox, puts, bucket, table,
                   lastPut, result>>

\* Lines 136-148 with upload_blob (lines 34-36): building the storage client
\* raises, or the upload raises and upload_blob re-raises it.
UploadRaises(p) ==
    /\ pc[p] = "upload"
    /\ uploads' = [uploads EXCEPT ![p] =
           Append(@, [path |-> destination_path(event[p]), ok |-> FALSE])]
    /\ Raise(p)
    /\ UNCHANGED <<event, response, outbox, puts, bucket, table, lastPut>>

\* send_email, lines 101-110: sg.send completes.
SgSend(p) ==
    /\ pc[p] = "send"
    /\ outbox' = [outbox EXCEPT ![p] =
           Append(@, [message |-> Mail(event[p], call[p]),
                      status |-> call[p].status,
                      failure_reason |-> call[p].failure_reason,
                      sent |-> TRUE])]
    /\ pc' = [pc EXCEPT ![p] = "track_sent"]
    /\ UNCHANGED <<event, inExcept, response, call, uploads, puts, bucket,
                   table, lastPut, result>>

\* Variant of SgSendRaises: send_email has no try around sg.send, whose
\* exception reaches the handler.
SgSendRaises_Propagates(p) ==
    /\ pc[p] = "send"
    /\ outbox' = [outbox EXCEPT ![p] =
           Append(@, [message |-> Mail(event[p], call[p]),
                      status |-> call[p].status,
                      failure_reason |-> call[p].failure_reason,
                      sent |-> FALSE])]
    /\ Raise(p)
    /\ UNCHANGED <<event, response, uploads, puts, bucket, table, lastPut>>

\* send_email, lines 109, 112-113: sg.send raises into send_email's except.
SgSendRaises(p) ==
    /\ pc[p] = "send"
    /\ outbox' = [outbox EXCEPT ![p] =
           Append(@, [message |-> Mail(event[p], call[p]),
                      status |-> call[p].status,
                      failure_reason |-> call[p].failure_reason,
                      sent |-> FALSE])]
    /\ pc' = [pc EXCEPT ![p] = "track_failed"]
    /\ UNCHANGED <<event, inExcept, response, call, uploads, puts, bucket,
                   table, lastPut, result>>

\* send_email, line 111: the "Sent" record is written and send_email returns.
TrackSent(p) ==
    /\ pc[p] = "track_sent"
    /\ update_email_tracking(p, "Sent")
    /\ SendEmailReturns(p)
    /\ UNCHANGED <<event, response, outbox, uploads, bucket>>

\* send_email, line 111: the write raises inside send_email's try.
TrackSentRaises(p) ==
    /\ pc[p] = "track_sent"
    /\ update_email_tracking_raises(p, "Sent")
    /\ pc' = [pc EXCEPT ![p] = "track_failed"]
    /\ UNCHANGED <<event, inExcept, response, call, outbox, uploads, bucket, result>>

\* Variant of TrackFailed: line 114 writes "Sent".
TrackFailed_WritesSent(p) ==
    /\ pc[p] = "track_failed"
    /\ update_email_tracking(p, "Sent")
    /\ SendEmailReturns(p)
    /\ UNCHANGED <<event, response, outbox, uploads, bucket>>

\* send_email, line 114: the "Failed" record is written and send_email returns.
TrackFailed(p) ==
    /\ pc[p] = "track_failed"
    /\ update_email_tracking(p, "Failed")
    /\ SendEmailReturns(p)
    /\ UNCHANGED <<event, response, outbox, uploads, bucket>>

\* send_email, line 114: the write raises out of send_email.
TrackFailedRaises(p) ==
    /\ pc[p] = "track_failed"
    /\ update_email_tracking_raises(p, "Failed")
    /\ Raise(p)
    /\ UNCHANGED <<event, response, outbox, uploads, bucket>>

\* Lines 182 and 200, then 218: the failure branch records "Failed" and the
\* handler returns the message.
TrackBranch(p) ==
    /\ pc[p] = "track_branch"
    /\ update_email_tracking(p, "Failed")
    /\ pc' = [pc EXCEPT ![p] = "returned"]
    /\ result' = [result EXCEPT ![p] = Returned(event[p])]
    /\ UNCHANGED <<event, inExcept, response, call, outbox, uploads, bucket>>

\* Lines 182 and 200: the write raises inside the try body.
TrackBranchRaises(p) ==
    /\ pc[p] = "track_branch"
    /\ update_email_tracking_raises(p, "Failed")
    /\ Raise(p)
    /\ UNCHANGED <<event, response, outbox, uploads, bucket>>

\* Lines 217-218: the except block records "Failed" and the handler returns.
TrackExcept(p) ==
    /\ pc[p] = "track_except"
    /\ update_email_tracking(p, "Failed")
    /\ pc' = [pc EXCEPT ![p] = "returned"]
    /\ result' = [result EXCEPT ![p] = Returned(event[p])]
    /\ UNCHANGED <<event, inExcept, response, call, outbox, uploads, bucket>>

\* Line 217: the write raises inside the except block.
TrackExceptRaises(p) ==
    /\ pc[p] = "track_except"
    /\ update_email_tracking_raises(p, "Failed")
    /\ Raise(p)
    /\ UNCHANGED <<event, response, outbox, uploads, bucket>>

lambda_handler(p) ==
    \/ Fetch(p)
    \/ FetchRaises(p)
    \/ Upload(p)
    \/ UploadRaises(p)
    \/ SgSend(p)
    \/ SgSendRaises(p)
    \/ TrackSent(p)
    \/ TrackSentRaises(p)
    \/ TrackFailed(p)
    \/ TrackFailedRaises(p)
    \/ TrackBranch(p)
    \/ TrackBranchRaises(p)
    \/ TrackExcept(p)
    \/ TrackExceptRaises(p)

Next == \E p \in Procs : lambda_handler(p)

Spec == Init /\ [][Next]_vars

(***************************************************************************)
(* Vocabulary of the properties.  The expected path, key and reasons are   *)
(* written out here from the documented formats, apart from the operators  *)
(* the actions use.                                                        *)
(***************************************************************************)
Terminated(p) == pc[p] \in {"returned", "raised"}

\* {user_first_name}_{user_last_name}/{assignment_id}/attempt_{n}/{file name};
\* the file name of every event of EventList is the last piece of its URL.
ExpectedPath(p) ==
    LET m == event[p] IN
    m.user_first_name \o "_" \o m.user_last_name \o "/" \o m.assignment_id
        \o "/attempt_" \o ToString(m.submission_count) \o "/"
        \o m.submission_url[Len(m.submission_url)]

\* {user_email}__{assignment_id}__{submission_count}
ExpectedKey(p) ==
    LET m == event[p] IN
    m.user_email \o "__" \o m.assignment_id \o "__" \o ToString(m.submission_count)

\* The items the table holds under invocation p's key.
Records(p) == {i \in table : i.id = ExpectedKey(p)}

RecordStatusIs(p, status) ==
    /\ Cardinality(Records(p)) = 1
    /\ \A i \in Records(p) : i.status = status

CompletedPuts(p) == Cardinality({i \in 1..Len(puts[p]) : puts[p][i].ok})

PutRaised(p) == \E i \in 1..Len(puts[p]) : ~puts[p][i].ok

SendRaised(p) == \E i \in 1..Len(outbox[p]) : ~outbox[p][i].sent

UploadRaised(p) == \E i \in 1..Len(uploads[p]) : ~uploads[p][i].ok

\* No other invocation has written a record under p's key.
NoOtherWriter(p) ==
    \A q \in Procs \ {p} : ExpectedKey(q) = ExpectedKey(p) => CompletedPuts(q) = 0

\* No other invocation has called upload_blob.
NoOtherUploader(p) == \A q \in Procs \ {p} : uploads[q] = <<>>

IsSuccessMail(p, e) ==
    /\ e.status = "success"
    /\ e.message.to_emails = event[p].user_email
    /\ e.message.subject =
           "Assignment Submission Confirmation - " \o event[p].assignment_name

IsFailureMail(p, e) ==
    /\ e.status = "failure"
    /\ e.message.to_emails = event[p].user_email
    /\ e.message.subject =
           "Assignment Submission Error - " \o event[p].assignment_name

CitesDownloadError(p, e) ==
    e.failure_reason = "There was an error downloading the Assignment ("
                       \o event[p].assignment_name \o ") and processing it."

CitesNotZip(p, e) ==
    e.failure_reason = "Your submission for Assignment ("
        \o event[p].assignment_name \o ") failed because the submitted file ('"
        \o event[p].submission_url[Len(event[p].submission_url)]
        \o "') is not a .zip file. Please submit the file in .zip format."

CitesGenericError(e) ==
    e.failure_reason = "There was an error processing your submission."

\* The branch an invocation returned from.
FromSuccessBranch(p) == ~inExcept[p] /\ call[p].status = "success"
FromFailureBranch(p) == ~inExcept[p] /\ call[p].status = "failure"

(***************************************************************************)
(* C1                                                                      *)
(***************************************************************************)
\* C1 as stated: an invocation that has run its branch to the return has
\* performed exactly one tracking-store write, whichever branch it took.
C1_ExactlyOneWrite ==
    \A p \in Procs : pc[p] = "returned" => Len(puts[p]) = 1

\* C1 amended: an invocation that returns normally has completed exactly one
\* tracking-store write if it returns from the success branch, exactly two
\* (send_email's write, then the handler's own "Failed" write) if it returns
\* from the download-failure or format-failure branch, and two or three if
\* it returns from the catch-all handler; every invocation that has ended
\* has called the tracking store at least once.
C1_WritesPerBranch ==
    \A p \in Procs :
        /\ Terminated(p) => Len(puts[p]) >= 1
        /\ pc[p] = "returned" =>
            /\ FromSuccessBranch(p) => CompletedPuts(p) = 1
            /\ FromFailureBranch(p) => CompletedPuts(p) = 2
            /\ inExcept[p] => CompletedPuts(p) \in {2, 3}

\* A fault-free download-failure invocation has returned after two writes.
C1_Witness ==
    \E p \in Procs :
        /\ pc[p] = "returned"
        /\ response[p].status_code = 404
        /\ ~inExcept[p] /\ ~PutRaised(p) /\ ~SendRaised(p)
        /\ puts[p] = << [status |-> "Sent", ok |-> TRUE],
                        [status |-> "Failed", ok |-> TRUE] >>

(***************************************************************************)
(* C2                                                                      *)
(***************************************************************************)
\* C2 as stated: an invocation makes exactly one sg.send attempt, whichever
\* collaborator faults: never a second one, and one by the time it ends.
C2_ExactlyOneSend ==
    \A p \in Procs :
        /\ Len(outbox[p]) <= 1
        /\ Terminated(p) => Len(outbox[p]) = 1

(***************************************************************************)
(* C3                                                                      *)
(***************************************************************************)
\* C3 as stated: lambda_handler never raises, and an invocation in which a
\* collaborator faulted returns with a failure email attempted and its
\* tracking record "Failed".
C3_NeverRaises ==
    \A p \in Procs :
        /\ pc[p] # "raised"
        /\ (pc[p] = "returned" /\ NoOtherWriter(p)
              /\ (inExcept[p] \/ SendRaised(p) \/ PutRaised(p))) =>
            /\ \E i \in 1..Len(outbox[p]) : IsFailureMail(p, outbox[p][i])
            /\ RecordStatusIs(p, "Failed")

(***************************************************************************)
(* C4                                                                      *)
(***************************************************************************)
\* An invocation in which no collaborator call raised.
FaultFree(p) ==
    ~inExcept[p] /\ ~UploadRaised(p) /\ ~SendRaised(p) /\ ~PutRaised(p)

\* C4: an invocation whose fetch answers 200 with a zip archive and in which
\* nothing faults returns after exactly one upload, at the documented path,
\* exactly one email, with success framing, and with its tracking record,
\* under the documented key, "Sent"; for the documented scenario the path is
\* A_B/hw1/attempt_1/test.zip and the key a@b.com__hw1__1.
C4_SuccessPath ==
    \A p \in Procs :
        (/\ Terminated(p)
         /\ response[p] = [status_code |-> 200, content |-> ZipBody]
         /\ FaultFree(p)) =>
            /\ pc[p] = "returned"
            /\ uploads[p] = << [path |-> ExpectedPath(p), ok |-> TRUE] >>
            /\ [path |-> ExpectedPath(p), content |-> ZipBody] \in bucket
            /\ Len(outbox[p]) = 1
            /\ IsSuccessMail(p, outbox[p][1])
            /\ outbox[p][1].sent
            /\ NoOtherWriter(p) => RecordStatusIs(p, "Sent")
            /\ event[p] = EventList[1] =>
                /\ uploads[p][1].path = "A_B/hw1/attempt_1/test.zip"
                /\ NoOtherWriter(p) =>
                       \E i \in table : i.id = "a@b.com__hw1__1" /\ i.status = "Sent"

\* The documented scenario has run to its return.
C4_Witness ==
    \E p \in Procs :
        /\ pc[p] = "returned"
        /\ event[p] = EventList[1]
        /\ response[p] = [status_code |-> 200, content |-> ZipBody]
        /\ FaultFree(p)
        /\ NoOtherWriter(p)
        /\ Len(uploads[p]) = 1

(***************************************************************************)
(* C5                                                                      *)
(***************************************************************************)
FetchedNon200(p) == response[p] # NoResponse /\ response[p].status_code # 200

\* C5: after a fetch that answers a status other than 200, whatever the
\* body, the invocation uploads nothing and its first email is the failure
\* email that cites the download error; when its tracking-store writes
\* complete, that is its only email, it returns, and its tracking record
\* ends "Failed".
C5_DownloadFailure ==
    \A p \in Procs :
        FetchedNon200(p) =>
            /\ uploads[p] = <<>>
            /\ NoOtherUploader(p) => bucket = {}
            /\ Len(outbox[p]) >= 1 =>
                   IsFailureMail(p, outbox[p][1]) /\ CitesDownloadError(p, outbox[p][1])
            /\ (Terminated(p) /\ ~PutRaised(p)) =>
                /\ pc[p] = "returned"
                /\ Len(outbox[p]) = 1
                /\ NoOtherWriter(p) => RecordStatusIs(p, "Failed")

\* A 404 answer carrying a valid zip has been handled to the return.
C5_Witness ==
    \E p \in Procs :
        /\ pc[p] = "returned"
        /\ response[p] = [status_code |-> 404, content |-> ZipBody]
        /\ ~PutRaised(p)
        /\ NoOtherWriter(p)
        /\ Len(outbox[p]) = 1

(***************************************************************************)
(* C6                                                                      *)
(***************************************************************************)
\* C6: after a fetch that answers 200 with a body that is no zip archive,
\* the invocation uploads nothing and its first email is the failure email
\* that cites the file not being a .zip file; when its tracking-store writes
\* complete, that is its only email, it returns, and its tracking record
\* ends "Failed".
C6_FormatFailure ==
    \A p \in Procs :
        response[p] = [status_code |-> 200, content |-> TextBody] =>
            /\ uploads[p] = <<>>
            /\ NoOtherUploader(p) => bucket = {}
            /\ Len(outbox[p]) >= 1 =>
                   IsFailureMail(p, outbox[p][1]) /\ CitesNotZip(p, outbox[p][1])
            /\ (Terminated(p) /\ ~PutRaised(p)) =>
                /\ pc[p] = "returned"
                /\ Len(outbox[p]) = 1
                /\ NoOtherWriter(p) => RecordStatusIs(p, "Failed")

\* A 200 answer carrying text has been handled to the return.
C6_Witness ==
    \E p \in Procs :
        /\ pc[p] = "returned"
        /\ response[p] = [status_code |-> 200, content |-> TextBody]
        /\ ~PutRaised(p)
        /\ NoOtherWriter(p)
        /\ Len(outbox[p]) = 1

(***************************************************************************)
(* C7                                                                      *)
(***************************************************************************)
\* C7: once the upload has raised, the invocation never sends an email with
\* success framing and its first email is the generic failure email; when
\* its tracking-store writes complete it returns with that one email and
\* with its tracking record "Failed".
C7_UploadFault ==
    \A p \in Procs :
        UploadRaised(p) =>
            /\ response[p] = [status_code |-> 200, content |-> ZipBody]
            /\ \A i \in 1..Len(outbox[p]) :
                   /\ outbox[p][i].status # "success"
                   /\ outbox[p][i].message.subject #
                          "Assignment Submission Confirmation - "
                              \o event[p].assignment_name
            /\ pc[p] # "send" => Len(outbox[p]) >= 1
            /\ Len(outbox[p]) >= 1 =>
                   IsFailureMail(p, outbox[p][1]) /\ CitesGenericError(outbox[p][1])
            /\ (Terminated(p) /\ ~PutRaised(p)) =>
                /\ pc[p] = "returned"
                /\ Len(outbox[p]) = 1
                /\ NoOtherWriter(p) => RecordStatusIs(p, "Failed")

\* An upload fault has been handled to the return.
C7_Witness ==
    \E p \in Procs :
        /\ pc[p] = "returned"
        /\ UploadRaised(p)
        /\ ~PutRaised(p)
        /\ NoOtherWriter(p)
        /\ outbox[p][1].sent

(***************************************************************************)
(* C8                                                                      *)
(***************************************************************************)
\* C8: a raise of sg.send is followed, inside send_email, by the "Failed"
\* tracking write; when the tracking-store writes complete, it leads to no
\* second send attempt, the catch-all handler is entered only if the fetch
\* or the upload raised, and the invocation returns the parsed message with
\* its tracking record "Failed"; on the success path the blob stays
\* uploaded.
C8_SendFault ==
    \A p \in Procs :
        (Len(outbox[p]) >= 1 /\ ~outbox[p][1].sent) =>
            /\ Len(puts[p]) >= 1 => puts[p][1].status = "Failed"
            /\ ~PutRaised(p) =>
                /\ pc[p] \notin {"send", "track_sent"}
                /\ Len(outbox[p]) = 1
                /\ inExcept[p] => (response[p] = NoResponse \/ UploadRaised(p))
                /\ pc[p] # "raised"
                /\ pc[p] = "returned" =>
                    /\ result[p] = [returned |-> TRUE, value |-> event[p]]
                    /\ NoOtherWriter(p) => RecordStatusIs(p, "Failed")
                    /\ call[p].status = "success" =>
                        /\ ~inExcept[p]
                        /\ uploads[p] = << [path |-> ExpectedPath(p), ok |-> TRUE] >>
                        /\ \E b \in bucket : b.path = ExpectedPath(p)

\* On the success path the send raised and the invocation has returned.
C8_Witness ==
    \E p \in Procs :
        /\ pc[p] = "returned"
        /\ call[p].status = "success"
        /\ Len(outbox[p]) = 1 /\ ~outbox[p][1].sent
        /\ ~PutRaised(p)
        /\ NoOtherWriter(p)

(***************************************************************************)
(* C9                                                                      *)
(***************************************************************************)
\* The statuses of the items the table holds under key k.
StatusesUnder(k) == {i.status : i \in {j \in table : j.id = k}}

\* The table holds at most one item under each key: none before the key's
\* first completed write, afterwards one with the latest write's status.
C9_StateOk ==
    \A k \in Keys :
        /\ Cardinality({i \in table : i.id = k}) <= 1
        /\ lastPut[k] = "none" => {i \in table : i.id = k} = {}
        /\ lastPut[k] # "none" => StatusesUnder(k) = {lastPut[k]}

\* A step changes the items of no key but that of the invocation whose
\* write it completes.
C9_StepOk ==
    \A k \in Keys :
        {i \in table : i.id = k} # {i \in table' : i.id = k} =>
            \E p \in Procs :
                /\ ExpectedKey(p) = k
                /\ Len(puts'[p]) = Len(puts[p]) + 1
                /\ puts'[p][Len(puts'[p])].ok

\* C9: whatever two invocations have done, in any interleaving of their
\* steps, the table holds at most one item under each key, none before the
\* key's first completed write and afterwards exactly one whose status is
\* that of the latest completed write for the key (so two invocations with
\* one key leave one record, the last writer's); and a step changes the
\* items of no key but that of the invocation whose write it completes.
C9_LastWriteWins ==
    /\ [](C9_StateOk /\ \A i \in table : i.id \in Keys)
    /\ [][C9_StepOk]_vars

\* Two invocations with one key have both ended, both completed writes, and
\* the record reads "Sent" although one of them last wrote "Failed".
C9_Witness ==
    /\ ExpectedKey(1) = ExpectedKey(2)
    /\ pc[1] = "returned" /\ pc[2] = "returned"
    /\ CompletedPuts(1) >= 1 /\ CompletedPuts(2) >= 1
    /\ puts[1][Len(puts[1])] = [status |-> "Failed", ok |-> TRUE]
    /\ puts[2][Len(puts[2])] = [status |-> "Sent", ok |-> TRUE]
    /\ lastPut[ExpectedKey(1)] = "Sent"
    /\ Cardinality(table) = 1

(***************************************************************************)
(* C10                                                                     *)
(***************************************************************************)
\* C10: when an invocation with no other writer of its key has returned and
\* the record under its key reads "Sent", then its fetch answered 200 with a
\* zip archive, its upload completed, and its one email, the success email,
\* was sent without fault; whatever faulted.
C10_SentImpliesSuccess ==
    \A p \in Procs :
        (/\ pc[p] = "returned"
         /\ NoOtherWriter(p)
         /\ \E i \in Records(p) : i.status = "Sent") =>
            /\ response[p] = [status_code |-> 200, content |-> ZipBody]
            /\ uploads[p] = << [path |-> ExpectedPath(p), ok |-> TRUE] >>
            /\ ~inExcept[p]
            /\ Len(outbox[p]) = 1
            /\ IsSuccessMail(p, outbox[p][1])
            /\ outbox[p][1].sent

\* An invocation has returned leaving "Sent".
C10_Witness ==
    \E p \in Procs :
        /\ pc[p] = "returned"
        /\ NoOtherWriter(p)
        /\ RecordStatusIs(p, "Sent")

====
